---- MODULE Spec2Model ----
(***************************************************************************)
(* Criterion lifecycle, evidence audit trail and template allocation of    *)
(* or360-web, modelled from src/src/App.tsx (the last App component of the *)
(* file), src/src/components/EvidenceDrawer.tsx, EvidenceInline,           *)
(* EvidencePage and src/src/AllocateCriteria.tsx.                          *)
(*                                                                         *)
(* Every async handler is split at its awaits: the code before the first   *)
(* await is one action (the UI event), the code after each await is one    *)
(* action (the completion of the store call, with its outcome chosen by    *)
(* the store).  Handlers in flight are records in the set `tasks`.         *)
(***************************************************************************)
EXTENDS Integers, Sequences, FiniteSets, TLC

(***************************************************************************)
(* Bounds                                                                  *)
(***************************************************************************)
\* number of UI operations started in one behaviour of the criteria page
MaxOps == 2
\* number of UI operations started in one behaviour of the evidence surfaces
MaxEvOps == 2
\* length of a text typed by the user
MaxLen == 2
\* number of handlers of the criteria page awaiting the store at one time
MaxInflight == 2
\* number of clicks on the allocator page in one behaviour
MaxClicks == 6
\* number of rows another client inserts in one behaviour of the allocator
MaxOther == 1
\* number of criteria of one project that carry the same template_id
MaxCopies == 2
\* number of projects whose refreshExisting, called by the effect, awaits the store
MaxFetch == 2

NULL == "null"

(***************************************************************************)
(* Texts are sequences of tokens; a template literal is a concatenation.   *)
(***************************************************************************)
IsSpace(ch) == ch = " "

RECURSIVE TrimStart(_)
TrimStart(s) ==
  IF s = <<>> THEN <<>>
  ELSE IF IsSpace(Head(s)) THEN TrimStart(Tail(s)) ELSE s

RECURSIVE TrimEnd(_)
TrimEnd(s) ==
  IF s = <<>> THEN <<>>
  ELSE IF IsSpace(s[Len(s)]) THEN TrimEnd(SubSeq(s, 1, Len(s) - 1)) ELSE s

\* String.prototype.trim
Trim(s) == TrimEnd(TrimStart(s))

(***************************************************************************)
(* Criteria page (App): data                                               *)
(***************************************************************************)
Crits == {"c1", "c2"}

Statuses == {"not_started", "in_progress", "done", "delayed", "caveat"}

\* the statuses StatusSelect of CriteriaCard offers
StatusOptions == {"not_started", "in_progress", "blocked", "done", "delayed", "caveat"}

Kinds == {"note", "link", "file"}

\* what the user can type into a text box
TextChars == {" ", "a"}
Texts == UNION {[1..k -> TextChars] : k \in 0..MaxLen}

\* names of the files the user can pick
FileNames == {"f"}

\* a column that is null / a property that is absent
NoText == <<NULL>>

\* the label chain without its last branch
StatusLabelNoCaveat(status) ==
  IF status = "not_started" THEN "Not started"
  ELSE IF status = "in_progress" THEN "In progress"
  ELSE IF status = "done" THEN "Done"
  ELSE IF status = "delayed" THEN "Delayed"
  ELSE status

\* the label chain of handleUpdateStatus
StatusLabel(status) ==
  IF status = "not_started" THEN "Not started"
  ELSE IF status = "in_progress" THEN "In progress"
  ELSE IF status = "done" THEN "Done"
  ELSE IF status = "delayed" THEN "Delayed"
  ELSE IF status = "caveat" THEN "Caveat"
  ELSE status

\* `Status changed to: ${label}`
StatusNoteText(status) == <<"Status changed to: ", StatusLabel(status)>>

VARIABLES
  criteria,     \* App state `criteria`: the status shown for each criterion
  notes,        \* App state `notes`: evidence rows shown, most recent first
  err,          \* App state `err`
  linkErr,      \* App state `linkErr`
  alerts,       \* messages shown with alert(), oldest first
  rows,         \* state `rows` of EvidenceDrawer, EvidenceInline, EvidencePage
  sfCrit,       \* the criterion each evidence surface shows
  sfErr,        \* state `err` of EvidenceDrawer and EvidencePage
  toasts,       \* messages shown with show(), oldest first
  dbStatus,     \* store: criteria.status
  dbFields,     \* store: criteria.owner_email, due_date and caveat_reason
  criteriaFields, \* App state `criteria`: owner_email, due_date, caveat_reason shown
  dbEvidence,   \* store: rows of table evidence
  blobs,        \* object store: paths of bucket evidence
  tasks,        \* handlers suspended at an await
  opCount,      \* operations started so far
  nextId        \* next primary key of table evidence

appVars == <<criteria, notes, err, linkErr, alerts, rows, sfCrit, sfErr, toasts,
             dbStatus, dbFields, criteriaFields, dbEvidence, blobs, tasks, opCount, nextId>>

VARIABLES
  projectId,         \* AllocateCriteria state `projectId`
  existing,          \* state `existing`: template_ids already in the project
  selectedToAdd,     \* state `selectedToAdd`
  selectedToRemove,  \* state `selectedToRemove`
  addDrawerOpen,     \* state `addDrawerOpen`
  removeDrawerOpen,  \* state `removeDrawerOpen`
  inserting,         \* state `inserting`
  removing,          \* state `removing`
  draftRows,         \* state `draftRows`
  dbCriteria,        \* store: number of criteria per (project_id, template_id)
  fetching,          \* projects whose refreshExisting (of the effect) awaits the store
  insTask,           \* confirmInsert suspended at an await
  remTask,           \* confirmRemove suspended at an await
  commitLog,         \* the commits that ran to their end, oldest first
  clickCount,        \* clicks on the allocator page so far
  otherCount,        \* rows inserted by another client so far
  marks,             \* history: <<"add" or "remove", project, template>> of the ticks set
  anchor,            \* AllocateCriteria state `anchor`: "go_live" or "start"
  dueArgs,           \* the template and the project computeDueDate is called with
  dueDate            \* what computeDueDate returned

allocVars == <<projectId, existing, selectedToAdd, selectedToRemove,
               addDrawerOpen, removeDrawerOpen, inserting, removing, draftRows,
               dbCriteria, fetching, insTask, remTask, commitLog, clickCount,
               otherCount, marks, anchor, dueArgs, dueDate>>

dueVars == <<anchor, dueArgs, dueDate>>

vars == <<appVars, allocVars>>

\* a row of table evidence / an element of `notes` or `rows`
EvRow(id, c, kind, note, url, path) ==
  [id |-> id, criterion_id |-> c, kind |-> kind, note |-> note,
   url |-> url, file_path |-> path]

NoRow == EvRow(<<NULL, 0>>, NULL, NULL, NoText, NoText, NoText)

NoSnap == [c \in Crits |-> NULL]

NoFields ==
  [c \in Crits |-> [owner_email |-> NULL, due_date |-> NULL, caveat_reason |-> NULL]]

\* a suspended handler: which one, where it waits, and its closure
Task(n, op, stage, c) ==
  [n |-> n, op |-> op, stage |-> stage, crit |-> c, status |-> NULL,
   text |-> NoText, text2 |-> NoText, snap |-> NoSnap, snapFields |-> NoFields,
   row |-> NoRow, sf |-> NULL]

\* `${criterionId}/${Date.now()}-${file.name}`; the clock is the operation count
StoragePath(c, now, name) == <<c, "/", ToString(now), "-", name>>

\* getPublicUrl(path).publicUrl
PublicUrl(path) == <<"public/">> \o path

\* prev.filter(n => n.id !== id)
RECURSIVE WithoutId(_, _)
WithoutId(list, id) ==
  IF list = <<>> THEN <<>>
  ELSE IF Head(list).id = id THEN WithoutId(Tail(list), id)
       ELSE <<Head(list)>> \o WithoutId(Tail(list), id)

\* notes.find(n => n.id === id)
RECURSIVE FindById(_, _)
FindById(list, id) ==
  IF list = <<>> THEN NoRow
  ELSE IF Head(list).id = id THEN Head(list) ELSE FindById(Tail(list), id)

RowsOf(list) == {list[i] : i \in DOMAIN list}

\* DELETE FROM evidence WHERE id = :id
DbDelete(db, id) == {r \in db : r.id # id}

CanStart == opCount < MaxOps /\ Cardinality(tasks) < MaxInflight

CanStartEv == opCount < MaxEvOps /\ Cardinality(tasks) < MaxInflight

\* what the owner input of CriteriaCard passes to onChangeOwner
OwnerInputs == {"", "b@x"}

\* what the date input of CriteriaCard passes to onChangeDueDate
DueInputs == {NULL, "", "2025-06-16"}

\* `x || null` of a string or null
OrNull(x) == IF x = "" THEN NULL ELSE x

\* owner_email, due_date and caveat_reason of the criteria when the page is loaded
SeedFields ==
  [c \in Crits |-> [owner_email |-> "a@x", due_date |-> "2025-01-13",
                    caveat_reason |-> IF c = "c2" THEN "risk accepted" ELSE NULL]]

(***************************************************************************)
(* handleUpdateStatus                                                      *)
(***************************************************************************)
\* the optimistic update dropping the caveat reason when the status leaves caveat
StatusStartClearsCaveat(id, status) ==
  /\ CanStart
  /\ criteria' = [criteria EXCEPT ![id] = status]
  /\ criteriaFields' =
       [criteriaFields EXCEPT ![id].caveat_reason = IF status = "caveat" THEN @ ELSE NULL]
  /\ tasks' = tasks \cup {[Task(opCount + 1, "status", "rpc", id)
                             EXCEPT !.status = status, !.snap = criteria,
                                    !.snapFields = criteriaFields]}
  /\ opCount' = opCount + 1
  /\ UNCHANGED <<notes, err, linkErr, alerts, rows, sfCrit, sfErr, toasts,
                 dbStatus, dbEvidence, blobs, nextId>>
  /\ UNCHANGED dbFields

\* up to the await of rpc("set_criterion_status"): snapshot, optimistic update
\* `{ ...c, status }` of the entry, which keeps its other fields
StatusStart(id, status) ==
  /\ CanStart
  /\ criteria' = [criteria EXCEPT ![id] = status]
  /\ criteriaFields' = [criteriaFields EXCEPT ![id] = @]
  /\ tasks' = tasks \cup {[Task(opCount + 1, "status", "rpc", id)
                             EXCEPT !.status = status, !.snap = criteria,
                                    !.snapFields = criteriaFields]}
  /\ opCount' = opCount + 1
  /\ UNCHANGED <<notes, err, linkErr, alerts, rows, sfCrit, sfErr, toasts,
                 dbStatus, dbEvidence, blobs, nextId>>
  /\ UNCHANGED dbFields

\* the failure branch without setCriteria(snapshot)
StatusRpcFailedNoRollback(t) ==
  /\ t \in tasks /\ t.op = "status" /\ t.stage = "rpc"
  /\ err' = <<"Failed to update status: ", "error">>
  /\ tasks' = tasks \ {t}
  /\ UNCHANGED <<criteria, notes, linkErr, alerts, rows, sfCrit, sfErr, toasts,
                 dbStatus, dbEvidence, blobs, opCount, nextId>>
  /\ UNCHANGED <<dbFields, criteriaFields>>

\* the failure branch without its return: the note insert is issued anyway
StatusRpcFailedNoReturn(t) ==
  /\ t \in tasks /\ t.op = "status" /\ t.stage = "rpc"
  /\ err' = <<"Failed to update status: ", "error">>
  /\ criteria' = t.snap
  /\ tasks' = (tasks \ {t}) \cup {[t EXCEPT !.stage = "note"]}
  /\ UNCHANGED <<notes, linkErr, alerts, rows, sfCrit, sfErr, toasts,
                 dbStatus, dbEvidence, blobs, opCount, nextId>>
  /\ criteriaFields' = t.snapFields
  /\ UNCHANGED dbFields

\* the rpc returned { error }: roll back to the snapshot and stop
StatusRpcFailed(t) ==
  /\ t \in tasks /\ t.op = "status" /\ t.stage = "rpc"
  /\ err' = <<"Failed to update status: ", "error">>
  /\ criteria' = t.snap
  /\ tasks' = tasks \ {t}
  /\ UNCHANGED <<notes, linkErr, alerts, rows, sfCrit, sfErr, toasts,
                 dbStatus, dbEvidence, blobs, opCount, nextId>>
  /\ criteriaFields' = t.snapFields
  /\ UNCHANGED dbFields

\* the function set_criterion_status of the store: it writes the status of
\* the row and leaves its other columns, caveat_reason included, as they are
set_criterion_status(p_id, p_status) ==
  /\ dbStatus' = [dbStatus EXCEPT ![p_id] = p_status]
  /\ UNCHANGED dbFields

\* the status persisted by an update of the whole row as the page loaded it
StatusRpcOkFullRow(t) ==
  /\ t \in tasks /\ t.op = "status" /\ t.stage = "rpc"
  /\ dbStatus' = [dbStatus EXCEPT ![t.crit] = t.status]
  /\ dbFields' = [dbFields EXCEPT ![t.crit] = SeedFields[t.crit]]
  /\ tasks' = (tasks \ {t}) \cup {[t EXCEPT !.stage = "note"]}
  /\ UNCHANGED criteriaFields
  /\ UNCHANGED <<criteria, notes, err, linkErr, alerts, rows, sfCrit, sfErr, toasts,
                 dbEvidence, blobs, opCount, nextId>>

\* the rpc succeeded: the row has the status; the note insert is issued
StatusRpcOk(t) ==
  /\ t \in tasks /\ t.op = "status" /\ t.stage = "rpc"
  /\ set_criterion_status(t.crit, t.status)
  /\ tasks' = (tasks \ {t}) \cup {[t EXCEPT !.stage = "note"]}
  /\ UNCHANGED <<criteria, notes, err, linkErr, alerts, rows, sfCrit, sfErr, toasts,
                 dbEvidence, blobs, opCount, nextId>>
  /\ UNCHANGED criteriaFields

\* the element handleUpdateStatus puts in front of `notes`
StatusLocalNote(t) ==
  EvRow(<<"rnd", t.n>>, t.crit, "note", StatusNoteText(t.status), NoText, NoText)

\* the note insert returned (its result is not looked at); setNotes
StatusNoteReturned(t, stored) ==
  /\ t \in tasks /\ t.op = "status" /\ t.stage = "note"
  /\ IF stored
       THEN /\ dbEvidence' = dbEvidence \cup
                 {EvRow(<<"db", nextId>>, t.crit, "note",
                        StatusNoteText(t.status), NoText, NoText)}
            /\ nextId' = nextId + 1
       ELSE UNCHANGED <<dbEvidence, nextId>>
  /\ notes' = <<StatusLocalNote(t)>> \o notes
  /\ tasks' = tasks \ {t}
  /\ UNCHANGED <<criteria, err, linkErr, alerts, rows, sfCrit, sfErr, toasts,
                 dbStatus, blobs, opCount>>
  /\ UNCHANGED <<dbFields, criteriaFields>>

handleUpdateStatus ==
  \/ \E id \in Crits, status \in StatusOptions : StatusStart(id, status)
  \/ \E t \in tasks : StatusRpcFailed(t)
  \/ \E t \in tasks : StatusRpcOk(t)
  \/ \E t \in tasks, stored \in BOOLEAN : StatusNoteReturned(t, stored)

(***************************************************************************)
(* updateOwner, updateDueDate                                              *)
(***************************************************************************)
\* updateOwner up to the await of the update
UpdateOwnerStart(criterionId, newEmail) ==
  /\ CanStart
  /\ opCount' = opCount + 1
  /\ tasks' = tasks \cup {[Task(opCount + 1, "updateOwner", "update", criterionId)
                             EXCEPT !.text = <<OrNull(newEmail)>>]}
  /\ UNCHANGED <<criteria, notes, err, linkErr, alerts, rows, sfCrit, sfErr, toasts,
                 dbStatus, dbFields, criteriaFields, dbEvidence, blobs, nextId>>

\* UPDATE criteria SET owner_email = :v WHERE id = :id returned; an error is dropped
UpdateOwnerReturned(t, ok) ==
  /\ t \in tasks /\ t.op = "updateOwner" /\ t.stage = "update"
  /\ dbFields' = IF ok THEN [dbFields EXCEPT ![t.crit].owner_email = t.text[1]]
                 ELSE dbFields
  /\ tasks' = tasks \ {t}
  /\ UNCHANGED <<criteria, criteriaFields, notes, err, linkErr, alerts, rows, sfCrit,
                 sfErr, toasts, dbStatus, dbEvidence, blobs, opCount, nextId>>

\* updateDueDate up to the await of the update
UpdateDueDateStart(criterionId, newISO) ==
  /\ CanStart
  /\ opCount' = opCount + 1
  /\ tasks' = tasks \cup {[Task(opCount + 1, "updateDueDate", "update", criterionId)
                             EXCEPT !.text = <<OrNull(newISO)>>]}
  /\ UNCHANGED <<criteria, notes, err, linkErr, alerts, rows, sfCrit, sfErr, toasts,
                 dbStatus, dbFields, criteriaFields, dbEvidence, blobs, nextId>>

\* UPDATE criteria SET due_date = :v WHERE id = :id returned; an error is dropped
UpdateDueDateReturned(t, ok) ==
  /\ t \in tasks /\ t.op = "updateDueDate" /\ t.stage = "update"
  /\ dbFields' = IF ok THEN [dbFields EXCEPT ![t.crit].due_date = t.text[1]]
                 ELSE dbFields
  /\ tasks' = tasks \ {t}
  /\ UNCHANGED <<criteria, criteriaFields, notes, err, linkErr, alerts, rows, sfCrit,
                 sfErr, toasts, dbStatus, dbEvidence, blobs, opCount, nextId>>

updateOwner ==
  \/ \E c \in Crits, newEmail \in OwnerInputs : UpdateOwnerStart(c, newEmail)
  \/ \E t \in tasks, ok \in BOOLEAN : UpdateOwnerReturned(t, ok)

updateDueDate ==
  \/ \E c \in Crits, newISO \in DueInputs : UpdateDueDateStart(c, newISO)
  \/ \E t \in tasks, ok \in BOOLEAN : UpdateDueDateReturned(t, ok)

(***************************************************************************)
(* AllocateCriteria                                                        *)
(***************************************************************************)
Projects == {"p1", "p2"}

Templates == {"t1", "t2"}

\* the values of column criteria.template_id
TemplateIds == Templates \cup {NULL}

NoTask == [stage |-> "idle", project_id |-> NULL, ids |-> {}]

allocUi == <<projectId, existing, selectedToAdd, selectedToRemove,
             addDrawerOpen, removeDrawerOpen, inserting, removing, draftRows>>

allocNet == <<dbCriteria, fetching, insTask, remTask, commitLog, otherCount>>

\* a click is taken while the budget of the behaviour lasts
Click == clickCount < MaxClicks /\ clickCount' = clickCount + 1

\* SELECT template_id FROM criteria WHERE project_id = :p
SelectTemplateIds(p) == {t \in TemplateIds : dbCriteria[<<p, t>>] > 0}

\* the loop of refreshExisting adding every template_id, null included
IdsOfWithNull(data) == data

\* the loop of refreshExisting over the rows returned: null ids are skipped
IdsOf(data) == {t \in data : t # NULL}

\* what refreshExisting passes to setExisting: data is null when the select failed
Refreshed(p, ok) == IF ok THEN IdsOf(SelectTemplateIds(p)) ELSE {}

\* the page behind the drawers takes no clicks while a drawer is open
PageActive == ~addDrawerOpen /\ ~removeDrawerOpen

\* `existing.has(t.id)` of a row of the catalogue
isExisting(t) == t \in existing

\* the templates of `items` shown with the badge "Already added"
AlreadyAdded(items) == {t \in items : isExisting(t)}

\* the templates of `filtered` that can still be added
Addable(filtered) == {t \in filtered : ~isExisting(t)}

\* the ticks of one kind that are left once the templates `ids` are unticked
Unmarked(kind, ids) == {m \in marks : ~(m[1] = kind /\ m[3] \in ids)}

\* toggleForTemplate
toggleForTemplate(id) ==
  /\ Click
  /\ PageActive
  /\ IF id \in existing
       THEN /\ selectedToRemove' =
                 IF id \in selectedToRemove THEN selectedToRemove \ {id}
                 ELSE selectedToRemove \cup {id}
            /\ marks' = IF id \in selectedToRemove THEN Unmarked("remove", {id})
                        ELSE marks \cup {<<"remove", projectId, id>>}
            /\ UNCHANGED selectedToAdd
       ELSE /\ selectedToAdd' =
                 IF id \in selectedToAdd THEN selectedToAdd \ {id}
                 ELSE selectedToAdd \cup {id}
            /\ marks' = IF id \in selectedToAdd THEN Unmarked("add", {id})
                        ELSE marks \cup {<<"add", projectId, id>>}
            /\ UNCHANGED selectedToRemove
  /\ UNCHANGED <<projectId, existing, addDrawerOpen, removeDrawerOpen, inserting,
                 removing, draftRows, allocNet, appVars, dueVars>>

\* selectAllVisibleToAdd; `filtered` is the part of the catalogue the search
\* text and the category filter let through
selectAllVisibleToAdd(filtered) ==
  /\ Click
  /\ PageActive
  /\ filtered \ existing # {}
  /\ selectedToAdd' = selectedToAdd \cup (filtered \ existing)
  /\ marks' = marks \cup {<<"add", projectId, t>> : t \in (filtered \ existing) \ selectedToAdd}
  /\ UNCHANGED <<projectId, existing, selectedToRemove, addDrawerOpen,
                 removeDrawerOpen, inserting, removing, draftRows, allocNet, appVars, dueVars>>

clearAddSelection ==
  /\ Click
  /\ PageActive
  /\ selectedToAdd # {}
  /\ selectedToAdd' = {}
  /\ UNCHANGED <<projectId, existing, selectedToRemove, addDrawerOpen,
                 removeDrawerOpen, inserting, removing, draftRows, allocNet, appVars, dueVars>>
  /\ marks' = Unmarked("add", Templates)

clearRemoveSelection ==
  /\ Click
  /\ PageActive
  /\ selectedToRemove # {}
  /\ selectedToRemove' = {}
  /\ UNCHANGED <<projectId, existing, selectedToAdd, addDrawerOpen,
                 removeDrawerOpen, inserting, removing, draftRows, allocNet, appVars, dueVars>>
  /\ marks' = Unmarked("remove", Templates)

\* the project select: setProjectId, then the effect calls refreshExisting
setProjectId(p) ==
  /\ Click
  /\ PageActive
  /\ p # projectId
  /\ Cardinality(fetching \cup {p}) <= MaxFetch
  /\ projectId' = p
  /\ fetching' = fetching \cup {p}
  /\ UNCHANGED <<existing, selectedToAdd, selectedToRemove, addDrawerOpen,
                 removeDrawerOpen, inserting, removing, draftRows, dbCriteria,
                 insTask, remTask, commitLog, otherCount, appVars, dueVars, marks>>

\* the select of a refreshExisting called by the effect returned
refreshExisting(p, ok) ==
  /\ p \in fetching
  /\ fetching' = fetching \ {p}
  /\ existing' = Refreshed(p, ok)
  /\ UNCHANGED <<projectId, selectedToAdd, selectedToRemove, addDrawerOpen,
                 removeDrawerOpen, inserting, removing, draftRows, dbCriteria,
                 insTask, remTask, commitLog, clickCount, otherCount, appVars, dueVars, marks>>

\* buildDraftRows: one row per selected template that is not in `existing`
buildDraftRows ==
  {[template_id |-> t, project_id |-> projectId] :
     t \in {x \in Templates : x \in selectedToAdd /\ x \notin existing}}

openAddDrawer ==
  /\ Click
  /\ PageActive
  /\ selectedToAdd # {}
  /\ draftRows' = buildDraftRows
  /\ addDrawerOpen' = TRUE
  /\ UNCHANGED <<projectId, existing, selectedToAdd, selectedToRemove,
                 removeDrawerOpen, inserting, removing, allocNet, appVars, dueVars, marks>>

\* backdrop, X and Cancel of the add drawer
closeAddDrawer ==
  /\ Click
  /\ addDrawerOpen
  /\ addDrawerOpen' = FALSE
  /\ UNCHANGED <<projectId, existing, selectedToAdd, selectedToRemove,
                 removeDrawerOpen, inserting, removing, draftRows, allocNet, appVars, dueVars, marks>>

\* the Remove button of a draft row
dropDraftRow(row) ==
  /\ Click
  /\ addDrawerOpen
  /\ row \in draftRows
  /\ draftRows' = {r \in draftRows : r.template_id # row.template_id}
  /\ selectedToAdd' = selectedToAdd \ {row.template_id}
  /\ UNCHANGED <<projectId, existing, selectedToRemove, addDrawerOpen,
                 removeDrawerOpen, inserting, removing, allocNet, appVars, dueVars>>
  /\ marks' = Unmarked("add", {row.template_id})

\* confirmInsert without the return on an empty batch
ConfirmInsertStartUnguarded ==
  /\ Click
  /\ addDrawerOpen
  /\ ~inserting
  /\ inserting' = TRUE
  /\ insTask' = [stage |-> "insert", project_id |-> projectId, ids |-> draftRows]
  /\ UNCHANGED <<projectId, existing, selectedToAdd, selectedToRemove,
                 addDrawerOpen, removeDrawerOpen, removing, draftRows, dbCriteria,
                 fetching, remTask, commitLog, otherCount, appVars, dueVars, marks>>

\* confirmInsert up to the await of the insert
ConfirmInsertStart ==
  /\ Click
  /\ addDrawerOpen
  /\ draftRows # {} /\ ~inserting
  /\ inserting' = TRUE
  /\ insTask' = [stage |-> "insert", project_id |-> projectId, ids |-> draftRows]
  /\ UNCHANGED <<projectId, existing, selectedToAdd, selectedToRemove,
                 addDrawerOpen, removeDrawerOpen, removing, draftRows, dbCriteria,
                 fetching, remTask, commitLog, otherCount, appVars, dueVars, marks>>

\* INSERT INTO criteria of a batch of rows
DbInsert(batch) ==
  [k \in DOMAIN dbCriteria |->
     dbCriteria[k] + Cardinality({r \in batch : <<r.project_id, r.template_id>> = k})]

\* the catch block clearing the review like the success path does
InsertFailedCleared ==
  /\ insTask.stage = "insert"
  /\ alerts' = Append(alerts, <<"Failed to add criteria: ", "error">>)
  /\ addDrawerOpen' = FALSE
  /\ draftRows' = {}
  /\ selectedToAdd' = {}
  /\ inserting' = FALSE
  /\ insTask' = NoTask
  /\ UNCHANGED <<projectId, existing, selectedToRemove, removeDrawerOpen,
                 removing, dbCriteria, fetching, remTask, commitLog, clickCount,
                 otherCount>>
  /\ UNCHANGED <<criteria, notes, err, linkErr, rows, sfCrit, sfErr, toasts,
                 dbStatus, dbFields, criteriaFields, dbEvidence, blobs, tasks, opCount, nextId>>
  /\ UNCHANGED dueVars
  /\ marks' = Unmarked("add", Templates)

\* the insert returned an error: alert, and the finally block
InsertFailed ==
  /\ insTask.stage = "insert"
  /\ alerts' = Append(alerts, <<"Failed to add criteria: ", "error">>)
  /\ inserting' = FALSE
  /\ insTask' = NoTask
  /\ UNCHANGED <<projectId, existing, selectedToAdd, selectedToRemove,
                 addDrawerOpen, removeDrawerOpen, removing, draftRows, dbCriteria,
                 fetching, remTask, commitLog, clickCount, otherCount>>
  /\ UNCHANGED <<criteria, notes, err, linkErr, rows, sfCrit, sfErr, toasts,
                 dbStatus, dbFields, criteriaFields, dbEvidence, blobs, tasks, opCount, nextId>>
  /\ UNCHANGED <<dueVars, marks>>

\* the insert succeeded: the rows are stored, refreshExisting is awaited
InsertOk ==
  /\ insTask.stage = "insert"
  /\ \A r \in insTask.ids : dbCriteria[<<r.project_id, r.template_id>>] < MaxCopies
  /\ dbCriteria' = DbInsert(insTask.ids)
  /\ insTask' = [insTask EXCEPT !.stage = "refresh"]
  /\ UNCHANGED <<allocUi, fetching, remTask, commitLog, clickCount, otherCount, appVars, dueVars, marks>>

\* the success path with local bookkeeping in place of refreshExisting
InsertRefreshedLocally(ok) ==
  /\ insTask.stage = "refresh"
  /\ existing' = existing \cup {r.template_id : r \in insTask.ids}
  /\ addDrawerOpen' = FALSE
  /\ draftRows' = {}
  /\ selectedToAdd' = {}
  /\ inserting' = FALSE
  /\ insTask' = NoTask
  /\ commitLog' = Append(commitLog,
       [kind |-> "add", project_id |-> insTask.project_id,
        ids |-> {r.template_id : r \in insTask.ids}, fetched |-> ok])
  /\ UNCHANGED <<projectId, selectedToRemove, removeDrawerOpen, removing,
                 dbCriteria, fetching, remTask, clickCount, otherCount, appVars, dueVars>>
  /\ marks' = Unmarked("add", Templates)

\* refreshExisting of confirmInsert returned; the rest of the try block and
\* the finally block
InsertRefreshed(ok) ==
  /\ insTask.stage = "refresh"
  /\ existing' = Refreshed(insTask.project_id, ok)
  /\ addDrawerOpen' = FALSE
  /\ draftRows' = {}
  /\ selectedToAdd' = {}
  /\ inserting' = FALSE
  /\ insTask' = NoTask
  /\ commitLog' = Append(commitLog,
       [kind |-> "add", project_id |-> insTask.project_id,
        ids |-> {r.template_id : r \in insTask.ids}, fetched |-> ok])
  /\ UNCHANGED <<projectId, selectedToRemove, removeDrawerOpen, removing,
                 dbCriteria, fetching, remTask, clickCount, otherCount, appVars, dueVars>>
  /\ marks' = Unmarked("add", Templates)

openRemoveDrawer ==
  /\ Click
  /\ PageActive
  /\ selectedToRemove # {}
  /\ removeDrawerOpen' = TRUE
  /\ UNCHANGED <<projectId, existing, selectedToAdd, selectedToRemove,
                 addDrawerOpen, inserting, removing, draftRows, allocNet, appVars, dueVars, marks>>

\* backdrop, X and Cancel of the remove drawer
closeRemoveDrawer ==
  /\ Click
  /\ removeDrawerOpen
  /\ removeDrawerOpen' = FALSE
  /\ UNCHANGED <<projectId, existing, selectedToAdd, selectedToRemove,
                 addDrawerOpen, inserting, removing, draftRows, allocNet, appVars, dueVars, marks>>

\* the Keep button of a row of the remove drawer
keepRow(id) ==
  /\ Click
  /\ removeDrawerOpen
  /\ id \in selectedToRemove
  /\ selectedToRemove' = selectedToRemove \ {id}
  /\ UNCHANGED <<projectId, existing, selectedToAdd, addDrawerOpen,
                 removeDrawerOpen, inserting, removing, draftRows, allocNet, appVars, dueVars>>
  /\ marks' = Unmarked("remove", {id})

\* confirmRemove up to the await of the delete
ConfirmRemoveStart ==
  /\ Click
  /\ removeDrawerOpen
  /\ selectedToRemove # {} /\ ~removing
  /\ removing' = TRUE
  /\ remTask' = [stage |-> "delete", project_id |-> projectId, ids |-> selectedToRemove]
  /\ UNCHANGED <<projectId, existing, selectedToAdd, selectedToRemove,
                 addDrawerOpen, removeDrawerOpen, inserting, draftRows, dbCriteria,
                 fetching, insTask, commitLog, otherCount, appVars, dueVars, marks>>

\* DELETE FROM criteria WHERE project_id = :p AND template_id IN (:ids)
DbDeleteCriteria(p, ids) ==
  [k \in DOMAIN dbCriteria |-> IF k[1] = p /\ k[2] \in ids THEN 0 ELSE dbCriteria[k]]

\* the catch block of confirmRemove without the finally block
RemoveFailedNoFinally ==
  /\ remTask.stage = "delete"
  /\ alerts' = Append(alerts, <<"Failed to remove: ", "error">>)
  /\ remTask' = NoTask
  /\ UNCHANGED <<projectId, existing, selectedToAdd, selectedToRemove,
                 addDrawerOpen, removeDrawerOpen, inserting, removing, draftRows,
                 dbCriteria, fetching, insTask, commitLog, clickCount, otherCount>>
  /\ UNCHANGED <<criteria, notes, err, linkErr, rows, sfCrit, sfErr, toasts,
                 dbStatus, dbFields, criteriaFields, dbEvidence, blobs, tasks, opCount, nextId>>
  /\ UNCHANGED <<dueVars, marks>>

\* the delete returned an error: alert, and the finally block
RemoveFailed ==
  /\ remTask.stage = "delete"
  /\ alerts' = Append(alerts, <<"Failed to remove: ", "error">>)
  /\ removing' = FALSE
  /\ remTask' = NoTask
  /\ UNCHANGED <<projectId, existing, selectedToAdd, selectedToRemove,
                 addDrawerOpen, removeDrawerOpen, inserting, draftRows, dbCriteria,
                 fetching, insTask, commitLog, clickCount, otherCount>>
  /\ UNCHANGED <<criteria, notes, err, linkErr, rows, sfCrit, sfErr, toasts,
                 dbStatus, dbFields, criteriaFields, dbEvidence, blobs, tasks, opCount, nextId>>
  /\ UNCHANGED <<dueVars, marks>>

\* the delete succeeded: the rows are gone, refreshExisting is awaited
RemoveOk ==
  /\ remTask.stage = "delete"
  /\ dbCriteria' = DbDeleteCriteria(remTask.project_id, remTask.ids)
  /\ remTask' = [remTask EXCEPT !.stage = "refresh"]
  /\ UNCHANGED <<allocUi, fetching, insTask, commitLog, clickCount, otherCount, appVars, dueVars, marks>>

\* refreshExisting of confirmRemove returned; the rest of the try block and
\* the finally block
RemoveRefreshed(ok) ==
  /\ remTask.stage = "refresh"
  /\ existing' = Refreshed(remTask.project_id, ok)
  /\ selectedToRemove' = {}
  /\ removeDrawerOpen' = FALSE
  /\ removing' = FALSE
  /\ remTask' = NoTask
  /\ commitLog' = Append(commitLog,
       [kind |-> "remove", project_id |-> remTask.project_id,
        ids |-> remTask.ids, fetched |-> ok])
  /\ UNCHANGED <<projectId, selectedToAdd, addDrawerOpen, inserting, draftRows,
                 dbCriteria, fetching, insTask, clickCount, otherCount, appVars, dueVars>>
  /\ marks' = Unmarked("remove", Templates)

\* another client of the same store allocates template t to project p, which
\* its own diff shows as not allocated
OtherClientInsert(p, t) ==
  /\ otherCount < MaxOther
  /\ dbCriteria[<<p, t>>] = 0
  /\ dbCriteria' = [dbCriteria EXCEPT ![<<p, t>>] = @ + 1]
  /\ otherCount' = otherCount + 1
  /\ UNCHANGED <<allocUi, fetching, insTask, remTask, commitLog, clickCount, appVars, dueVars, marks>>

(***************************************************************************)
(* computeDueDate                                                          *)
(***************************************************************************)
Digits == <<"0", "1", "2", "3", "4", "5", "6", "7", "8", "9">>

DigitValue(ch) == (CHOOSE i \in 1..10 : Digits[i] = ch) - 1

\* the number a run of decimal digits denotes
RECURSIVE ParseDigits(_)
ParseDigits(s) ==
  IF s = <<>> THEN 0
  ELSE 10 * ParseDigits(SubSeq(s, 1, Len(s) - 1)) + DigitValue(s[Len(s)])

\* n written with w digits, zero-padded
RECURSIVE PadDigits(_, _)
PadDigits(n, w) ==
  IF w = 0 THEN <<>> ELSE PadDigits(n \div 10, w - 1) \o <<Digits[(n % 10) + 1]>>

\* DayFromYear of ECMAScript: the day number of 1 January of year y
DayFromYear(y) ==
  365 * (y - 1970) + ((y - 1969) \div 4) - ((y - 1901) \div 100) + ((y - 1601) \div 400)

DaysInYear(y) == DayFromYear(y + 1) - DayFromYear(y)

\* days of year y before month m (0 = January), as MakeDay and MonthFromTime count
MonthStart(y, m) ==
  LET leap == DaysInYear(y) - 365
      base == <<0, 31, 59, 90, 120, 151, 181, 212, 243, 273, 304, 334, 365>>
  IN  base[m + 1] + (IF m >= 2 THEN leap ELSE 0)

\* MakeDay(year, month, date): date may lie outside the month
MakeDay(y, m, dt) == DayFromYear(y) + MonthStart(y, m) + dt - 1

\* MakeDate(day, time): a time value, kept as its day number and the
\* milliseconds within the day
MakeDate(day, time) == [day |-> day, ms |-> time]

\* new Date(baseStr + "T00:00:00Z"): the time value of a YYYY-MM-DD text
DateParse(str) ==
  MakeDate(MakeDay(ParseDigits(SubSeq(str, 1, 4)),
                   ParseDigits(SubSeq(str, 6, 7)) - 1,
                   ParseDigits(SubSeq(str, 9, 10))), 0)

Day(tv) == tv.day

\* the year whose days include the day of tv
YearFromTime(tv) ==
  CHOOSE y \in (1969 + (Day(tv) \div 366))..(1971 + (Day(tv) \div 365)) :
    DayFromYear(y) <= Day(tv) /\ Day(tv) < DayFromYear(y + 1)

DayWithinYear(tv) == Day(tv) - DayFromYear(YearFromTime(tv))

MonthFromTime(tv) ==
  CHOOSE m \in 0..11 :
    /\ MonthStart(YearFromTime(tv), m) <= DayWithinYear(tv)
    /\ DayWithinYear(tv) < MonthStart(YearFromTime(tv), m + 1)

\* getUTCDate
DateFromTime(tv) ==
  DayWithinYear(tv) - MonthStart(YearFromTime(tv), MonthFromTime(tv)) + 1

\* setUTCDate(dt): the same month and time of day, day of month dt
SetUTCDate(tv, dt) ==
  MakeDate(MakeDay(YearFromTime(tv), MonthFromTime(tv), dt), tv.ms)

\* toISOString().slice(0, 10)
IsoDate(tv) ==
  PadDigits(YearFromTime(tv), 4) \o <<"-">> \o PadDigits(MonthFromTime(tv) + 1, 2)
    \o <<"-">> \o PadDigits(DateFromTime(tv), 2)

\* a number column that is null
NoNumber == <<>>

\* computeDueDate that takes a zero offset for a missing one
computeDueDateFalsy(t, p, a) ==
  IF ~p.present \/ t.default_due_offset_days = NoNumber
     \/ t.default_due_offset_days = <<0>>
    THEN NoText
  ELSE LET baseStr == IF a = "go_live" THEN p.go_live_date ELSE p.start_date IN
    IF baseStr = NoText \/ baseStr = <<>> THEN NoText
    ELSE LET base == DateParse(baseStr) IN
      IsoDate(SetUTCDate(base, DateFromTime(base) - t.default_due_offset_days[1]))

\* computeDueDate(t, p) with the state `anchor` as a
computeDueDate(t, p, a) ==
  IF ~p.present \/ t.default_due_offset_days = NoNumber THEN NoText
  ELSE LET baseStr == IF a = "go_live" THEN p.go_live_date ELSE p.start_date IN
    IF baseStr = NoText \/ baseStr = <<>> THEN NoText
    ELSE LET base == DateParse(baseStr) IN
      IsoDate(SetUTCDate(base, DateFromTime(base) - t.default_due_offset_days[1]))

\* a YYYY-MM-DD text as the store returns it for a date column
Iso(y, m, d) == PadDigits(y, 4) \o <<"-">> \o PadDigits(m, 2) \o <<"-">> \o PadDigits(d, 2)

\* values of criteria_templates.default_due_offset_days
Offsets == {NoNumber, <<0>>, <<1>>, <<7>>, <<14>>, <<31>>, <<60>>, <<366>>, <<-1>>}

\* values of projects.go_live_date and projects.start_date
AnchorDates ==
  {NoText, Iso(2025, 6, 30), Iso(2025, 1, 20), Iso(2025, 3, 1), Iso(2024, 3, 1),
   Iso(2000, 3, 1), Iso(1970, 1, 1)}

StartDates == {NoText, Iso(2025, 1, 1), Iso(2024, 12, 31)}

Pending == <<"pending">>

\* the preview asks for the due date of one template in the chosen project
ComputeDueDate ==
  /\ dueDate = Pending
  /\ dueDate' = computeDueDate(dueArgs.t, dueArgs.p, anchor)
  /\ UNCHANGED <<anchor, dueArgs, appVars>>
  /\ UNCHANGED <<projectId, existing, selectedToAdd, selectedToRemove, addDrawerOpen,
                 removeDrawerOpen, inserting, removing, draftRows, dbCriteria,
                 fetching, insTask, remTask, commitLog, clickCount, otherCount, marks>>

\* the due-date inputs while the allocator computes nothing
DueIdle ==
  /\ anchor = "go_live"
  /\ dueArgs = [t |-> [default_due_offset_days |-> NoNumber],
                p |-> [present |-> FALSE, go_live_date |-> NoText, start_date |-> NoText]]
  /\ dueDate = NoText

confirmInsert ==
  \/ ConfirmInsertStart
  \/ InsertFailed
  \/ InsertOk
  \/ \E ok \in BOOLEAN : InsertRefreshed(ok)

confirmRemove ==
  \/ ConfirmRemoveStart
  \/ RemoveFailed
  \/ RemoveOk
  \/ \E ok \in BOOLEAN : RemoveRefreshed(ok)

\* the allocator as the other pages leave it: not mounted
AllocIdle ==
  /\ projectId = NULL
  /\ existing = {}
  /\ selectedToAdd = {}
  /\ selectedToRemove = {}
  /\ addDrawerOpen = FALSE
  /\ removeDrawerOpen = FALSE
  /\ inserting = FALSE
  /\ removing = FALSE
  /\ draftRows = {}
  /\ dbCriteria = [k \in Projects \X TemplateIds |-> 0]
  /\ fetching = {}
  /\ insTask = NoTask
  /\ remTask = NoTask
  /\ commitLog = <<>>
  /\ clickCount = 0
  /\ otherCount = 0
  /\ marks = {}

(***************************************************************************)
(* addNote, confirmAddLink/addLink, uploadFile, deleteEvidence of App      *)
(***************************************************************************)
evFrame == <<criteria, rows, sfCrit, sfErr, toasts, dbStatus, dbFields, criteriaFields>>

\* INSERT INTO evidence ... RETURNING: the row as stored
Inserted(c, kind, note, url, path) == EvRow(<<"db", nextId>>, c, kind, note, url, path)

\* addNote up to its await: trim, return on empty, issue the insert
AddNoteStart(criterionId, text) ==
  /\ CanStartEv
  /\ opCount' = opCount + 1
  /\ LET v == Trim(text) IN
       IF v = <<>>
         THEN UNCHANGED tasks
         ELSE tasks' = tasks \cup
                {[Task(opCount + 1, "addNote", "insert", criterionId) EXCEPT !.text = v]}
  /\ UNCHANGED <<evFrame, notes, err, linkErr, alerts, dbEvidence, blobs, nextId>>

\* addNote after its await
AddNoteReturned(t, ok) ==
  /\ t \in tasks /\ t.op = "addNote" /\ t.stage = "insert"
  /\ IF ok
       THEN /\ dbEvidence' = dbEvidence \cup {Inserted(t.crit, "note", t.text, NoText, NoText)}
            /\ nextId' = nextId + 1
            /\ notes' = <<Inserted(t.crit, "note", t.text, NoText, NoText)>> \o notes
            /\ UNCHANGED err
       ELSE /\ err' = <<"error">>
            /\ UNCHANGED <<dbEvidence, nextId, notes>>
  /\ tasks' = tasks \ {t}
  /\ UNCHANGED <<evFrame, linkErr, alerts, blobs, opCount>>

\* confirmAddLink and addLink up to the await of the insert
AddLinkStart(linkForId, linkURL) ==
  /\ CanStartEv
  /\ opCount' = opCount + 1
  /\ LET v == Trim(linkURL) IN
       IF v = <<>>
         THEN /\ linkErr' = <<"Please enter a URL or reference.">>
              /\ UNCHANGED tasks
         ELSE /\ tasks' = tasks \cup
                   {[Task(opCount + 1, "addLink", "insert", linkForId) EXCEPT !.text = Trim(v)]}
              /\ UNCHANGED linkErr
  /\ UNCHANGED <<evFrame, notes, err, alerts, dbEvidence, blobs, nextId>>

\* addLink after its await, then closeLinkModal
AddLinkReturned(t, ok) ==
  /\ t \in tasks /\ t.op = "addLink" /\ t.stage = "insert"
  /\ IF ok
       THEN /\ dbEvidence' = dbEvidence \cup {Inserted(t.crit, "link", NoText, t.text, NoText)}
            /\ nextId' = nextId + 1
            /\ notes' = <<Inserted(t.crit, "link", NoText, t.text, NoText)>> \o notes
            /\ UNCHANGED err
       ELSE /\ err' = <<"error">>
            /\ UNCHANGED <<dbEvidence, nextId, notes>>
  /\ linkErr' = NoText
  /\ tasks' = tasks \ {t}
  /\ UNCHANGED <<evFrame, alerts, blobs, opCount>>

\* uploadFile up to the await of storage.upload
UploadStart(criterionId, name) ==
  /\ CanStartEv
  /\ opCount' = opCount + 1
  /\ tasks' = tasks \cup
       {[Task(opCount + 1, "uploadFile", "upload", criterionId)
           EXCEPT !.text = <<name>>, !.text2 = StoragePath(criterionId, opCount + 1, name)]}
  /\ UNCHANGED <<evFrame, notes, err, linkErr, alerts, dbEvidence, blobs, nextId>>

\* uploadFile without the return after a failed storage.upload
UploadReturnedNoAbort(t, ok) ==
  /\ t \in tasks /\ t.op = "uploadFile" /\ t.stage = "upload"
  /\ IF ok
       THEN /\ blobs' = blobs \cup {t.text2}
            /\ UNCHANGED alerts
       ELSE /\ alerts' = Append(alerts, <<"Upload failed: ", "error">>)
            /\ UNCHANGED blobs
  /\ tasks' = (tasks \ {t}) \cup {[t EXCEPT !.stage = "insert"]}
  /\ UNCHANGED <<evFrame, notes, err, linkErr, dbEvidence, opCount, nextId>>

\* storage.upload returned
UploadReturned(t, ok) ==
  /\ t \in tasks /\ t.op = "uploadFile" /\ t.stage = "upload"
  /\ IF ok
       THEN /\ blobs' = blobs \cup {t.text2}
            /\ tasks' = (tasks \ {t}) \cup {[t EXCEPT !.stage = "insert"]}
            /\ UNCHANGED alerts
       ELSE /\ alerts' = Append(alerts, <<"Upload failed: ", "error">>)
            /\ tasks' = tasks \ {t}
            /\ UNCHANGED blobs
  /\ UNCHANGED <<evFrame, notes, err, linkErr, dbEvidence, opCount, nextId>>

\* the insert of the file row returned
UploadRowReturned(t, ok) ==
  /\ t \in tasks /\ t.op = "uploadFile" /\ t.stage = "insert"
  /\ IF ok
       THEN /\ dbEvidence' = dbEvidence \cup
                 {Inserted(t.crit, "file", NoText, PublicUrl(t.text2), t.text2)}
            /\ nextId' = nextId + 1
            /\ notes' = <<Inserted(t.crit, "file", NoText, PublicUrl(t.text2), t.text2)>> \o notes
            /\ tasks' = (tasks \ {t}) \cup {[t EXCEPT !.stage = "note"]}
            /\ UNCHANGED err
       ELSE /\ err' = <<"error">>
            /\ tasks' = tasks \ {t}
            /\ UNCHANGED <<dbEvidence, nextId, notes>>
  /\ UNCHANGED <<evFrame, linkErr, alerts, blobs, opCount>>

\* `File uploaded: ${file.name}`
UploadNoteText(name) == <<"File uploaded: ", name>>

\* the insert of the cover note returned
UploadNoteReturned(t, ok) ==
  /\ t \in tasks /\ t.op = "uploadFile" /\ t.stage = "note"
  /\ IF ok
       THEN /\ dbEvidence' = dbEvidence \cup
                 {Inserted(t.crit, "note", UploadNoteText(t.text[1]), NoText, NoText)}
            /\ nextId' = nextId + 1
            /\ notes' = <<Inserted(t.crit, "note", UploadNoteText(t.text[1]), NoText, NoText)>>
                          \o notes
       ELSE UNCHANGED <<dbEvidence, nextId, notes>>
  /\ tasks' = tasks \ {t}
  /\ UNCHANGED <<evFrame, err, linkErr, alerts, blobs, opCount>>

\* deleteEvidence without the check of row.kind
DeleteEvidenceStartUnguarded(evidenceId) ==
  /\ CanStartEv
  /\ opCount' = opCount + 1
  /\ LET row == FindById(notes, evidenceId) IN
       IF row = NoRow
         THEN UNCHANGED <<tasks, alerts>>
         ELSE /\ tasks' = tasks \cup
                   {[Task(opCount + 1, "deleteEvidence",
                          IF row.kind = "file" /\ row.file_path # NoText
                            THEN "remove" ELSE "delete", row.criterion_id)
                       EXCEPT !.row = row]}
              /\ UNCHANGED alerts
  /\ UNCHANGED <<evFrame, notes, err, linkErr, dbEvidence, blobs, nextId>>

\* deleteEvidence up to its first await: find the row, refuse notes
DeleteEvidenceStart(evidenceId) ==
  /\ CanStartEv
  /\ opCount' = opCount + 1
  /\ LET row == FindById(notes, evidenceId) IN
       IF row = NoRow
         THEN UNCHANGED <<tasks, alerts>>
         ELSE IF row.kind = "note"
           THEN /\ alerts' = Append(alerts, <<"Activity notes cannot be deleted.">>)
                /\ UNCHANGED tasks
           ELSE /\ tasks' = tasks \cup
                     {[Task(opCount + 1, "deleteEvidence",
                            IF row.kind = "file" /\ row.file_path # NoText
                              THEN "remove" ELSE "delete", row.criterion_id)
                         EXCEPT !.row = row]}
                /\ UNCHANGED alerts
  /\ UNCHANGED <<evFrame, notes, err, linkErr, dbEvidence, blobs, nextId>>

\* deleteEvidence giving up when storage.remove fails
DeleteBlobReturnedAbort(t, ok) ==
  /\ t \in tasks /\ t.op = "deleteEvidence" /\ t.stage = "remove"
  /\ IF ok
       THEN /\ blobs' = blobs \ {t.row.file_path}
            /\ tasks' = (tasks \ {t}) \cup {[t EXCEPT !.stage = "delete"]}
            /\ UNCHANGED err
       ELSE /\ err' = <<"error">>
            /\ tasks' = tasks \ {t}
            /\ UNCHANGED blobs
  /\ UNCHANGED <<evFrame, notes, linkErr, alerts, dbEvidence, opCount, nextId>>

\* storage.remove returned; its outcome is ignored and the delete is issued
DeleteBlobReturned(t, ok) ==
  /\ t \in tasks /\ t.op = "deleteEvidence" /\ t.stage = "remove"
  /\ blobs' = IF ok THEN blobs \ {t.row.file_path} ELSE blobs
  /\ tasks' = (tasks \ {t}) \cup {[t EXCEPT !.stage = "delete"]}
  /\ UNCHANGED <<evFrame, notes, err, linkErr, alerts, dbEvidence, opCount, nextId>>

\* the delete of the row returned
DeleteRowReturned(t, ok) ==
  /\ t \in tasks /\ t.op = "deleteEvidence" /\ t.stage = "delete"
  /\ IF ok
       THEN /\ dbEvidence' = DbDelete(dbEvidence, t.row.id)
            /\ notes' = WithoutId(notes, t.row.id)
            /\ UNCHANGED err
       ELSE /\ err' = <<"error">>
            /\ UNCHANGED <<dbEvidence, notes>>
  /\ tasks' = tasks \ {t}
  /\ UNCHANGED <<evFrame, linkErr, alerts, blobs, opCount, nextId>>

\* the ids deleteEvidence can be called with: those shown, and one that is not
EvidenceIds == {notes[i].id : i \in DOMAIN notes} \cup {<<"db", 0>>}

addNote ==
  \/ \E c \in Crits, text \in Texts : AddNoteStart(c, text)
  \/ \E t \in tasks, ok \in BOOLEAN : AddNoteReturned(t, ok)

addLink ==
  \/ \E c \in Crits, url \in Texts : AddLinkStart(c, url)
  \/ \E t \in tasks, ok \in BOOLEAN : AddLinkReturned(t, ok)

uploadFile ==
  \/ \E c \in Crits, name \in FileNames : UploadStart(c, name)
  \/ \E t \in tasks, ok \in BOOLEAN : UploadReturned(t, ok)
  \/ \E t \in tasks, ok \in BOOLEAN : UploadRowReturned(t, ok)
  \/ \E t \in tasks, ok \in BOOLEAN : UploadNoteReturned(t, ok)

deleteEvidence ==
  \/ \E id \in EvidenceIds : DeleteEvidenceStart(id)
  \/ \E t \in tasks, ok \in BOOLEAN : DeleteBlobReturned(t, ok)
  \/ \E t \in tasks, ok \in BOOLEAN : DeleteRowReturned(t, ok)

(***************************************************************************)
(* EvidenceDrawer, EvidenceInline, EvidencePage: load, submit, remove      *)
(***************************************************************************)
Surfaces == {"drawer", "inline", "page"}

Modes == {"none", "link", "file"}

sfFrame == <<criteria, notes, err, linkErr, alerts, dbStatus, dbFields, criteriaFields>>

RECURSIVE NewestFirst(_)
\* ORDER BY uploaded_at DESC: keys are handed out in the order of insertion
NewestFirst(set) ==
  IF set = {} THEN <<>>
  ELSE LET top == CHOOSE r \in set : \A q \in set : q.id[2] <= r.id[2]
       IN <<top>> \o NewestFirst(set \ {top})

\* SELECT ... FROM evidence WHERE criterion_id = :c ORDER BY uploaded_at DESC
SelectEvidence(c) == NewestFirst({r \in dbEvidence : r.criterion_id = c})

\* the surface is shown for criterion c: its effect issues the select
SurfaceOpen(sf, c) ==
  /\ CanStartEv
  /\ opCount' = opCount + 1
  /\ sfCrit' = [sfCrit EXCEPT ![sf] = c]
  /\ tasks' = tasks \cup {[Task(opCount + 1, "load", "select", c) EXCEPT !.sf = sf]}
  /\ UNCHANGED <<sfFrame, rows, sfErr, toasts, dbEvidence, blobs, nextId>>

\* the select returned: EvidenceInline keeps its rows on error, the others
\* set the error and show the empty list
SurfaceLoaded(t, ok) ==
  /\ t \in tasks /\ t.op = "load" /\ t.stage = "select"
  /\ IF ok
       THEN /\ rows' = [rows EXCEPT ![t.sf] = SelectEvidence(t.crit)]
            /\ UNCHANGED sfErr
       ELSE IF t.sf = "inline"
         THEN UNCHANGED <<rows, sfErr>>
         ELSE /\ rows' = [rows EXCEPT ![t.sf] = <<>>]
              /\ sfErr' = [sfErr EXCEPT ![t.sf] = <<"error">>]
  /\ tasks' = tasks \ {t}
  /\ UNCHANGED <<sfFrame, sfCrit, toasts, dbEvidence, blobs, opCount, nextId>>

\* submit up to its first await: the checks of criterion, narrative, url, file
SubmitStart(sf, narrative, mode, url, file) ==
  /\ CanStartEv
  /\ opCount' = opCount + 1
  /\ LET text == Trim(narrative)
         u    == Trim(url)
         new  == [Task(opCount + 1, "submit", "insert", sfCrit[sf])
                    EXCEPT !.sf = sf, !.text = text]
     IN
       IF sfCrit[sf] = NULL /\ sf # "inline"
         THEN UNCHANGED <<tasks, toasts>>
       ELSE IF text = <<>>
         THEN /\ toasts' = Append(toasts, <<"Please add a short narrative/description.", "error">>)
              /\ UNCHANGED tasks
       ELSE IF mode = "none"
         THEN /\ tasks' = tasks \cup {[new EXCEPT !.status = "note"]}
              /\ UNCHANGED toasts
       ELSE IF mode = "link"
         THEN IF u = <<>>
                THEN /\ toasts' = Append(toasts, <<"Paste a valid URL.", "error">>)
                     /\ UNCHANGED tasks
                ELSE /\ tasks' = tasks \cup {[new EXCEPT !.status = "link", !.text2 = u]}
                     /\ UNCHANGED toasts
       ELSE IF file = NULL
         THEN /\ toasts' = Append(toasts, <<"Choose a file to upload.", "error">>)
              /\ UNCHANGED tasks
         ELSE /\ tasks' = tasks \cup
                   {[new EXCEPT !.status = "file", !.stage = "upload",
                                !.text2 = StoragePath(sfCrit[sf], opCount + 1, file)]}
              /\ UNCHANGED toasts
  /\ UNCHANGED <<sfFrame, rows, sfCrit, sfErr, dbEvidence, blobs, nextId>>

\* storage.upload of submit returned
SubmitUploadReturned(t, ok) ==
  /\ t \in tasks /\ t.op = "submit" /\ t.stage = "upload"
  /\ IF ok
       THEN /\ blobs' = blobs \cup {t.text2}
            /\ tasks' = (tasks \ {t}) \cup {[t EXCEPT !.stage = "insert"]}
            /\ UNCHANGED toasts
       ELSE /\ toasts' = Append(toasts, <<"error", "error">>)
            /\ tasks' = tasks \ {t}
            /\ UNCHANGED blobs
  /\ UNCHANGED <<sfFrame, rows, sfCrit, sfErr, dbEvidence, opCount, nextId>>

\* the row submit inserts for its mode
SubmitRow(t) ==
  IF t.status = "note" THEN Inserted(t.crit, "note", t.text, NoText, NoText)
  ELSE IF t.status = "link" THEN Inserted(t.crit, "link", t.text, t.text2, NoText)
  ELSE Inserted(t.crit, "file", t.text, PublicUrl(t.text2), t.text2)

SubmitToast(t) ==
  IF t.status = "note" THEN <<"Note added", "success">>
  ELSE IF t.status = "link" THEN <<"Link added", "success">>
  ELSE <<"File uploaded", "success">>

\* the insert of submit returned
SubmitReturned(t, ok) ==
  /\ t \in tasks /\ t.op = "submit" /\ t.stage = "insert"
  /\ IF ok
       THEN /\ dbEvidence' = dbEvidence \cup {SubmitRow(t)}
            /\ nextId' = nextId + 1
            /\ rows' = [rows EXCEPT ![t.sf] = <<SubmitRow(t)>> \o @]
            /\ toasts' = Append(toasts, SubmitToast(t))
       ELSE /\ toasts' = Append(toasts, <<"error", "error">>)
            /\ UNCHANGED <<dbEvidence, nextId, rows>>
  /\ tasks' = tasks \ {t}
  /\ UNCHANGED <<sfFrame, sfCrit, sfErr, blobs, opCount>>

\* remove up to its first await; it is offered on every row shown
RemoveStart(sf, row) ==
  /\ CanStartEv
  /\ row \in RowsOf(rows[sf])
  /\ opCount' = opCount + 1
  /\ tasks' = tasks \cup
       {[Task(opCount + 1, "remove",
              IF row.kind = "file" /\ row.file_path # NoText THEN "remove" ELSE "delete",
              row.criterion_id)
           EXCEPT !.sf = sf, !.row = row]}
  /\ UNCHANGED <<sfFrame, rows, sfCrit, sfErr, toasts, dbEvidence, blobs, nextId>>

\* storage.remove of remove returned; its outcome is ignored
RemoveBlobReturned(t, ok) ==
  /\ t \in tasks /\ t.op = "remove" /\ t.stage = "remove"
  /\ blobs' = IF ok THEN blobs \ {t.row.file_path} ELSE blobs
  /\ tasks' = (tasks \ {t}) \cup {[t EXCEPT !.stage = "delete"]}
  /\ UNCHANGED <<sfFrame, rows, sfCrit, sfErr, toasts, dbEvidence, opCount, nextId>>

\* the delete of remove returned
RemoveRowReturned(t, ok) ==
  /\ t \in tasks /\ t.op = "remove" /\ t.stage = "delete"
  /\ IF ok
       THEN /\ dbEvidence' = DbDelete(dbEvidence, t.row.id)
            /\ rows' = [rows EXCEPT ![t.sf] = WithoutId(@, t.row.id)]
            /\ toasts' = Append(toasts, <<"Evidence removed", "success">>)
       ELSE /\ toasts' = Append(toasts, <<"error", "error">>)
            /\ UNCHANGED <<dbEvidence, rows>>
  /\ tasks' = tasks \ {t}
  /\ UNCHANGED <<sfFrame, sfCrit, sfErr, blobs, opCount, nextId>>

load ==
  \/ \E sf \in Surfaces, c \in Crits : SurfaceOpen(sf, c)
  \/ \E t \in tasks, ok \in BOOLEAN : SurfaceLoaded(t, ok)

submit ==
  \/ \E sf \in Surfaces, narrative \in Texts :
        SubmitStart(sf, narrative, "none", <<>>, NULL)
  \/ \E sf \in Surfaces, narrative \in Texts, url \in Texts :
        SubmitStart(sf, narrative, "link", url, NULL)
  \/ \E sf \in Surfaces, narrative \in Texts, file \in FileNames \cup {NULL} :
        SubmitStart(sf, narrative, "file", <<>>, file)
  \/ \E t \in tasks, ok \in BOOLEAN : SubmitUploadReturned(t, ok)
  \/ \E t \in tasks, ok \in BOOLEAN : SubmitReturned(t, ok)

remove ==
  \/ \E sf \in Surfaces : \E row \in RowsOf(rows[sf]) : RemoveStart(sf, row)
  \/ \E t \in tasks, ok \in BOOLEAN : RemoveBlobReturned(t, ok)
  \/ \E t \in tasks, ok \in BOOLEAN : RemoveRowReturned(t, ok)

(***************************************************************************)
(* Specification of the criteria page                                      *)
(***************************************************************************)
InitData ==
  /\ dbStatus \in [Crits -> Statuses]
  /\ criteria = dbStatus
  /\ dbFields = SeedFields
  /\ criteriaFields = dbFields
  /\ dbEvidence = {}
  /\ notes = <<>>
  /\ err = NoText
  /\ linkErr = NoText
  /\ alerts = <<>>
  /\ rows = [sf \in {"drawer", "inline", "page"} |-> <<>>]
  /\ sfCrit = [sf \in {"drawer", "inline", "page"} |-> IF sf = "drawer" THEN NULL ELSE "c1"]
  /\ sfErr = [sf \in {"drawer", "inline", "page"} |-> NoText]
  /\ toasts = <<>>
  /\ blobs = {}
  /\ tasks = {}
  /\ opCount = 0
  /\ nextId = 1

InitApp == InitData /\ AllocIdle /\ DueIdle

NextApp ==
  \/ handleUpdateStatus /\ UNCHANGED allocVars

SpecApp == InitApp /\ [][NextApp]_vars

(***************************************************************************)
(* Specification of the evidence operations of all four components         *)
(***************************************************************************)
InitEvidence == InitData /\ dbStatus = [c \in Crits |-> "not_started"] /\ AllocIdle /\ DueIdle

NextEvidence ==
  \/ addNote /\ UNCHANGED allocVars
  \/ addLink /\ UNCHANGED allocVars
  \/ uploadFile /\ UNCHANGED allocVars
  \/ deleteEvidence /\ UNCHANGED allocVars
  \/ load /\ UNCHANGED allocVars
  \/ submit /\ UNCHANGED allocVars
  \/ remove /\ UNCHANGED allocVars

SpecEvidence == InitEvidence /\ [][NextEvidence]_vars

(***************************************************************************)
(* Specification of the status change next to the edits of owner and due   *)
(* date of the criteria card                                               *)
(***************************************************************************)
InitFields == InitData /\ dbStatus = [c \in Crits |-> "not_started"] /\ AllocIdle /\ DueIdle

NextFields ==
  \/ handleUpdateStatus /\ UNCHANGED allocVars
  \/ updateOwner /\ UNCHANGED allocVars
  \/ updateDueDate /\ UNCHANGED allocVars

SpecFields == InitFields /\ [][NextFields]_vars

\* the criteria the store holds when the allocator is opened: p1 has a
\* hand-written criterion and one from t2, p2 has one from t1
SeedCriteria == {<<"p1", NULL>>, <<"p1", "t2">>, <<"p2", "t1">>}

\* the allocator once the projects are loaded: the first project is chosen
\* and its refreshExisting is awaited; no template is allocated twice
InitAlloc ==
  /\ InitData /\ dbStatus = [c \in Crits |-> "not_started"]
  /\ projectId = "p1"
  /\ existing = {}
  /\ selectedToAdd = {}
  /\ selectedToRemove = {}
  /\ addDrawerOpen = FALSE
  /\ removeDrawerOpen = FALSE
  /\ inserting = FALSE
  /\ removing = FALSE
  /\ draftRows = {}
  /\ dbCriteria = [k \in Projects \X TemplateIds |->
                    IF k \in SeedCriteria THEN 1 ELSE 0]
  /\ fetching = {"p1"}
  /\ insTask = NoTask
  /\ remTask = NoTask
  /\ commitLog = <<>>
  /\ clickCount = 0
  /\ otherCount = 0
  /\ marks = {}
  /\ DueIdle

\* the steps of this client's page
NextAllocPage ==
  \/ \E id \in Templates : toggleForTemplate(id)
  \/ \E filtered \in SUBSET Templates : selectAllVisibleToAdd(filtered)
  \/ clearAddSelection
  \/ clearRemoveSelection
  \/ \E p \in Projects : setProjectId(p)
  \/ \E p \in Projects, ok \in BOOLEAN : refreshExisting(p, ok)
  \/ openAddDrawer
  \/ closeAddDrawer
  \/ \E row \in draftRows : dropDraftRow(row)
  \/ confirmInsert
  \/ openRemoveDrawer
  \/ closeRemoveDrawer
  \/ \E id \in Templates : keepRow(id)
  \/ confirmRemove

NextAlloc ==
  \/ NextAllocPage
  \/ \E p \in Projects, t \in Templates : OtherClientInsert(p, t)

SpecAlloc == InitAlloc /\ [][NextAlloc]_vars

\* every call to the store is answered: the awaits of confirmInsert and
\* confirmRemove resolve, with a result or with an error
StoreAnswers ==
  /\ WF_vars(InsertFailed \/ InsertOk)
  /\ WF_vars(\E ok \in BOOLEAN : InsertRefreshed(ok))
  /\ WF_vars(RemoveFailed \/ RemoveOk)
  /\ WF_vars(\E ok \in BOOLEAN : RemoveRefreshed(ok))

\* the page with no other client writing to the store
SpecAllocLive == InitAlloc /\ [][NextAllocPage]_vars /\ StoreAnswers

(***************************************************************************)
(* Specification of computeDueDate over templates, projects and anchors    *)
(***************************************************************************)
InitDue ==
  /\ InitData /\ dbStatus = [c \in Crits |-> "not_started"] /\ AllocIdle
  /\ anchor \in {"go_live", "start"}
  /\ \E o \in Offsets, present \in BOOLEAN, g \in AnchorDates, st \in StartDates :
       dueArgs = [t |-> [default_due_offset_days |-> o],
                  p |-> [present |-> present, go_live_date |-> g, start_date |-> st]]
  /\ dueDate = Pending

NextDue ==
  \/ ComputeDueDate

SpecDue == InitDue /\ [][NextDue]_vars

(***************************************************************************)
(* Steps of one handleUpdateStatus call, recognised on a pair of states    *)
(***************************************************************************)
\* the status rpc of call t returns success on this step
RpcOkStep(t) ==
  /\ t \in tasks /\ t.op = "status" /\ t.stage = "rpc"
  /\ [t EXCEPT !.stage = "note"] \in tasks'

\* the status rpc of call t returns an error on this step
RpcFailStep(t) ==
  /\ t \in tasks /\ t.op = "status" /\ t.stage = "rpc"
  /\ \A u \in tasks' : u.n # t.n

\* call t returns on this step, after its rpc had succeeded
ReturnStep(t) ==
  /\ t \in tasks /\ t.op = "status" /\ t.stage = "note"
  /\ \A u \in tasks' : u.n # t.n

\* handleUpdateStatus is invoked on this step, as call u
InvokeStep(u) ==
  /\ u \in tasks' /\ u.op = "status"
  /\ \A t \in tasks : t.n # u.n

IsStatusNote(r) == r.kind = "note" /\ r.note[1] = "Status changed to: "

(***************************************************************************)
(* C1                                                                      *)
(***************************************************************************)
\* the labels as the specification lists them
HumanLabel ==
  [not_started |-> "Not started", in_progress |-> "In progress",
   done |-> "Done", delayed |-> "Delayed", caveat |-> "Caveat"]

C1_RpcOk(t) ==
  RpcOkStep(t) =>
    /\ dbStatus'[t.crit] = t.status
    /\ \A c \in Crits \ {t.crit} : dbStatus'[c] = dbStatus[c]
    /\ UNCHANGED <<criteria, notes, dbEvidence>>

C1_Return(t) ==
  (ReturnStep(t) /\ t.status \in Statuses) =>
    /\ Len(notes') = Len(notes) + 1
    /\ Tail(notes') = notes
    /\ Head(notes').kind = "note"
    /\ Head(notes').criterion_id = t.crit
    /\ Head(notes').note = <<"Status changed to: ", HumanLabel[t.status]>>
    /\ dbEvidence \subseteq dbEvidence'
    /\ Cardinality(dbEvidence' \ dbEvidence) <= 1
    /\ \A r \in dbEvidence' \ dbEvidence :
         /\ r.kind = "note" /\ r.criterion_id = t.crit
         /\ r.note = <<"Status changed to: ", HumanLabel[t.status]>>
    /\ UNCHANGED <<criteria, dbStatus>>

\* the first call after the page loaded, once it has returned with success
C1_FirstCall ==
  (opCount = 1 /\ tasks = {} /\ notes # <<>> /\ IsStatusNote(Head(notes))
     /\ criteria[Head(notes).criterion_id] \in Statuses) =>
    \E c \in Crits, s \in Statuses :
      /\ criteria[c] = s /\ dbStatus[c] = s
      /\ Len(notes) = 1
      /\ notes[1].criterion_id = c
      /\ notes[1].note = <<"Status changed to: ", HumanLabel[s]>>

C2_RollbackOnFailure ==
  [][/\ \A u \in tasks' : InvokeStep(u) =>
          /\ u.snap = criteria
          /\ criteria'[u.crit] = u.status
     /\ \A t \in tasks : RpcFailStep(t) =>
          /\ criteria'[t.crit] = t.snap[t.crit]
          /\ err'[1] = "Failed to update status: "
          /\ UNCHANGED dbStatus]_vars

\* a call that changed the shown status has failed and has been rolled back
C2_Witness ==
  /\ opCount = 1 /\ tasks = {}
  /\ err # NoText
  /\ criteria = dbStatus
  /\ notes = <<>>

(***************************************************************************)
(* C3                                                                      *)
(***************************************************************************)
\* C3: a call waits for its note insert only after its rpc has returned
\* success on an earlier step; status notes reach the store and the list
\* only on the return of such a call; a call whose rpc fails ends there and
\* writes no note.
C3_NoteAfterPersistence ==
  [][/\ \A u \in tasks' :
          (u.op = "status" /\ u.stage = "note" /\ u \notin tasks) =>
             /\ [u EXCEPT !.stage = "rpc"] \in tasks
             /\ dbStatus'[u.crit] = u.status
             /\ UNCHANGED <<notes, dbEvidence>>
     /\ \A r \in dbEvidence' \ dbEvidence : IsStatusNote(r) =>
          \E t \in tasks : ReturnStep(t) /\ t.crit = r.criterion_id
                            /\ r.note = StatusNoteText(t.status)
     /\ (notes' # notes /\ notes' # <<>> /\ IsStatusNote(Head(notes'))
           /\ Len(notes') > Len(notes)) =>
          \E t \in tasks : ReturnStep(t) /\ t.crit = Head(notes').criterion_id
     /\ \A t \in tasks : RpcFailStep(t) => UNCHANGED <<notes, dbEvidence, nextId>>]_vars

\* one call failed and wrote nothing, another succeeded and wrote its note
C3_Witness ==
  /\ opCount = 2 /\ tasks = {}
  /\ err # NoText
  /\ Len(notes) = 1 /\ IsStatusNote(notes[1])
  /\ Cardinality(dbEvidence) = 1

(***************************************************************************)
(* C4                                                                      *)
(***************************************************************************)
NoteRows(set) == {r \in set : r.kind = "note"}

C4_NoCallForNote ==
  \A t \in tasks : t.op = "deleteEvidence" => t.row.kind # "note"

C4_Refused(id) ==
  (DeleteEvidenceStart(id) /\ FindById(notes, id).kind = "note") =>
    /\ alerts' = Append(alerts, <<"Activity notes cannot be deleted.">>)
    /\ tasks' = tasks
    /\ UNCHANGED <<dbEvidence, blobs, notes>>
    /\ \A c \in Crits :
         Cardinality({i \in DOMAIN notes' : notes'[i].criterion_id = c})
           = Cardinality({i \in DOMAIN notes : notes[i].criterion_id = c})

\* C4: deleteEvidence of an entry of kind note shows "Activity notes cannot
\* be deleted.", issues neither the row delete nor a storage removal, and
\* leaves the evidence of every criterion as it was, in the list and in the
\* store; no deleteEvidence call for a note is ever in flight.
C4_NotesNotDeletable ==
  /\ []C4_NoCallForNote
  /\ [][\A id \in EvidenceIds : C4_Refused(id)]_vars

\* deleteEvidence has refused a note that is still shown and still stored
C4_Witness ==
  /\ tasks = {}
  /\ alerts = <<<<"Activity notes cannot be deleted.">>>>
  /\ \E i \in DOMAIN notes : notes[i].kind = "note" /\ notes[i] \in dbEvidence

(***************************************************************************)
(* C5                                                                      *)
(***************************************************************************)
\* C5: a note-kind row of the store stays in the store, unchanged, on every
\* step of every evidence surface.
C5_NotesPermanent ==
  [][\A r \in NoteRows(dbEvidence) : r \in dbEvidence']_vars

(***************************************************************************)
(* C6                                                                      *)
(***************************************************************************)
HasNarrative(r) == r.note # NoText /\ Trim(r.note) # <<>>

\* C6: no evidence row reaches the store without a narrative: every row of
\* the evidence table, of every kind and from every entry point, carries a
\* text that is not empty after trimming.
C6_NarrativeRequired ==
  \A r \in dbEvidence : r.kind \in Kinds => HasNarrative(r)

(***************************************************************************)
(* C7: within one project no two criteria share a non-null template_id,    *)
(* after any sequence of allocator operations and with another client      *)
(* allocating to the same project between this client's diff and commit.   *)
(***************************************************************************)
C7_UniqueTemplatePerProject ==
  \A p \in Projects, t \in Templates : dbCriteria[<<p, t>>] <= 1

(***************************************************************************)
(* C8: in every reachable state of the allocator no template id is in both *)
(* selectedToAdd and selectedToRemove.                                     *)
(***************************************************************************)
C8_SelectionsDisjoint == selectedToAdd \cap selectedToRemove = {}

\* the commit that ended in this step, if one did
Committed == Len(commitLog') = Len(commitLog) + 1

LastCommit == commitLog'[Len(commitLog')]

\* the non-null template_ids a direct query of the store returns for p
DirectQuery(p) == {t \in Templates : dbCriteria[<<p, t>>] > 0}

Selection == <<selectedToAdd, selectedToRemove, draftRows, addDrawerOpen,
               removeDrawerOpen, existing>>

\* no call to the store is started or pending for the handler that failed
NoNewCall(task) == task = NoTask /\ fetching' = fetching /\ dbCriteria' = dbCriteria

(***************************************************************************)
(* C10: when the batched insert of confirmInsert or the batched delete of  *)
(* confirmRemove fails, one error is surfaced, selectedToAdd,              *)
(* selectedToRemove, the draft batch, the open drawer and `existing` are   *)
(* what they were before the commit, and no retry is issued.               *)
(***************************************************************************)
C10_BatchFailure ==
  [][/\ (insTask.stage = "idle" /\ insTask'.stage = "insert")
          => /\ Selection' = Selection /\ alerts' = alerts
             /\ insTask'.ids = draftRows /\ addDrawerOpen
     /\ (remTask.stage = "idle" /\ remTask'.stage = "delete")
          => /\ Selection' = Selection /\ alerts' = alerts
             /\ remTask'.ids = selectedToRemove /\ removeDrawerOpen
     /\ (insTask.stage = "insert" /\ insTask'.stage = "idle")
          => /\ Selection' = Selection
             /\ alerts' = Append(alerts, <<"Failed to add criteria: ", "error">>)
             /\ NoNewCall(insTask') /\ remTask' = remTask
             /\ ~inserting'
     /\ (remTask.stage = "delete" /\ remTask'.stage = "idle")
          => /\ Selection' = Selection
             /\ alerts' = Append(alerts, <<"Failed to remove: ", "error">>)
             /\ NoNewCall(remTask') /\ insTask' = insTask
             /\ ~removing']_vars

\* the insert of a batch failed: the review is still open on the same batch
C10_Witness ==
  /\ alerts = <<<<"Failed to add criteria: ", "error">>>>
  /\ insTask = NoTask /\ ~inserting
  /\ addDrawerOpen
  /\ draftRows = {[template_id |-> "t1", project_id |-> "p1"]}
  /\ selectedToAdd = {"t1"}
  /\ commitLog = <<>>

(***************************************************************************)
(* C11: adding a link with a narrative and a url stores two rows for the   *)
(* criterion, the link row and a cover note 'Link added: <url>': the       *)
(* handler that stored a link row goes on to the insert of the cover note. *)
(***************************************************************************)
C11_LinkCoverNote ==
  [][\A r \in dbEvidence' \ dbEvidence :
       r.kind = "link" =>
         \E u \in tasks' \ tasks :
           /\ u.crit = r.criterion_id
           /\ u.stage = "note"
           /\ u.text2 = <<"Link added: ">> \o r.url]_vars

(***************************************************************************)
(* C12: every successful deleteEvidence of a link or file entry appends a  *)
(* note to the same criterion recording the removal: the handler that      *)
(* deleted the row goes on to the insert of 'Link removed: ...' or         *)
(* 'File removed: ...'.                                                    *)
(***************************************************************************)
C12_RemovalNote ==
  [][\A t \in tasks \ tasks' :
       (/\ t.op = "deleteEvidence"
        /\ t.row \in dbEvidence \ dbEvidence'
        /\ t.row.kind \in {"link", "file"}) =>
         \E u \in tasks' \ tasks :
           /\ u.n = t.n
           /\ u.crit = t.row.criterion_id
           /\ u.stage = "note"
           /\ u.text2 = <<IF t.row.kind = "link" THEN "Link removed: "
                          ELSE "File removed: ">> \o t.row.url]_vars

\* the field edit t writes its value on this step
FieldWrite(t, c) ==
  /\ t \in tasks \ tasks' /\ t.crit = c
  /\ \/ /\ t.op = "updateOwner"
        /\ dbFields'[c] = [dbFields[c] EXCEPT !.owner_email = t.text[1]]
     \/ /\ t.op = "updateDueDate"
        /\ dbFields'[c] = [dbFields[c] EXCEPT !.due_date = t.text[1]]

(***************************************************************************)
(* C13: the status change writes only the status of the criterion row:     *)
(* the step on which its rpc succeeds leaves owner_email, due_date and     *)
(* caveat_reason of every row as stored, and in every interleaving with    *)
(* updateOwner and updateDueDate these columns change only on the step of  *)
(* a field edit, to the value that edit wrote.                             *)
(***************************************************************************)
C13_StatusOnlyUpdate ==
  [][/\ \A t \in tasks : RpcOkStep(t) =>
          /\ dbFields' = dbFields
          /\ dbStatus' = [dbStatus EXCEPT ![t.crit] = t.status]
     /\ \A c \in Crits : dbFields'[c] # dbFields[c] =>
          \E t \in tasks : FieldWrite(t, c)]_vars

\* a status change of c1 started first and persisted while an owner edit of
\* c1, started after it, wrote b@x: the row has the new status and the owner
C13_Witness ==
  /\ opCount = 2
  /\ \E t \in tasks :
       /\ tasks = {t}
       /\ t.op = "status" /\ t.n = 1 /\ t.stage = "note"
       /\ t.crit = "c1" /\ t.status = "done"
  /\ dbStatus["c1"] = "done"
  /\ dbFields["c1"].owner_email = "b@x"
  /\ dbFields["c1"].due_date = SeedFields["c1"].due_date

\* the Gregorian calendar, day by day
IsLeapYear(y) == y % 4 = 0 /\ (y % 100 # 0 \/ y % 400 = 0)

DaysInMonth(y, m) ==
  IF m = 2 THEN (IF IsLeapYear(y) THEN 29 ELSE 28)
  ELSE IF m \in {4, 6, 9, 11} THEN 30 ELSE 31

\* the last day of the month before that of c
EndOfPrevMonth(c) ==
  IF c.m > 1 THEN [y |-> c.y, m |-> c.m - 1, d |-> DaysInMonth(c.y, c.m - 1)]
  ELSE [y |-> c.y - 1, m |-> 12, d |-> 31]

\* the first day of the month after that of c
StartOfNextMonth(c) ==
  IF c.m < 12 THEN [y |-> c.y, m |-> c.m + 1, d |-> 1]
  ELSE [y |-> c.y + 1, m |-> 1, d |-> 1]

\* the calendar date n days before c (after it when n is negative), month
\* by month
RECURSIVE DaysBefore(_, _)
DaysBefore(c, n) ==
  IF n >= 0
    THEN IF n < c.d THEN [c EXCEPT !.d = c.d - n]
         ELSE DaysBefore(EndOfPrevMonth(c), n - c.d)
    ELSE IF c.d - n <= DaysInMonth(c.y, c.m) THEN [c EXCEPT !.d = c.d - n]
         ELSE DaysBefore(StartOfNextMonth(c), n + (DaysInMonth(c.y, c.m) - c.d) + 1)

\* year, month and day a YYYY-MM-DD text names
Civil(str) ==
  [y |-> ParseDigits(SubSeq(str, 1, 4)), m |-> ParseDigits(SubSeq(str, 6, 7)),
   d |-> ParseDigits(SubSeq(str, 9, 10))]

\* the anchor date computeDueDate was called with
AnchorDate == IF anchor = "go_live" THEN dueArgs.p.go_live_date ELSE dueArgs.p.start_date

DueOffset == dueArgs.t.default_due_offset_days

(***************************************************************************)
(* C14: computeDueDate returns null when the template's offset is null or  *)
(* the chosen anchor date of the project is null, and otherwise the        *)
(* calendar date exactly offset days before the anchor date: 2025-06-30    *)
(* with offset 14 gives 2025-06-16, 2025-01-20 with offset 7 gives         *)
(* 2025-01-13.                                                             *)
(***************************************************************************)
C14_DueDate ==
  dueDate # Pending =>
    /\ (DueOffset = NoNumber \/ AnchorDate = NoText \/ ~dueArgs.p.present)
         => dueDate = NoText
    /\ (DueOffset # NoNumber /\ AnchorDate # NoText /\ dueArgs.p.present)
         => LET due == DaysBefore(Civil(AnchorDate), DueOffset[1])
            IN  dueDate = Iso(due.y, due.m, due.d)
    /\ (DueOffset = <<14>> /\ dueArgs.p.present
          /\ AnchorDate = <<"2", "0", "2", "5", "-", "0", "6", "-", "3", "0">>)
         => dueDate = <<"2", "0", "2", "5", "-", "0", "6", "-", "1", "6">>
    /\ (DueOffset = <<7>> /\ dueArgs.p.present
          /\ AnchorDate = <<"2", "0", "2", "5", "-", "0", "1", "-", "2", "0">>)
         => dueDate = <<"2", "0", "2", "5", "-", "0", "1", "-", "1", "3">>

\* go-live 2025-06-30 and offset 14 gave 2025-06-16
C14_Witness ==
  /\ anchor = "go_live"
  /\ dueArgs.p.present
  /\ dueArgs.p.go_live_date = <<"2", "0", "2", "5", "-", "0", "6", "-", "3", "0">>
  /\ DueOffset = <<14>>
  /\ dueDate = <<"2", "0", "2", "5", "-", "0", "6", "-", "1", "6">>

\* a date as one number that orders dates
DateOrdinal(str) == 10000 * Civil(str).y + 100 * Civil(str).m + Civil(str).d

(***************************************************************************)
(* C15: for every offset of a template and every non-null anchor date the  *)
(* due date computeDueDate returns is not after the anchor date.           *)
(***************************************************************************)
C15_NeverAfterAnchor ==
  (dueDate # Pending /\ dueDate # NoText) =>
    DateOrdinal(dueDate) <= DateOrdinal(AnchorDate)

\* the labels of the five statuses
FiveLabels == {"Not started", "In progress", "Done", "Delayed", "Caveat"}

(***************************************************************************)
(* C16: a status outside not_started, in_progress, done, delayed, caveat   *)
(* is rejected before any store call: no call of handleUpdateStatus waits  *)
(* on the store with such a status, no criterion shows one, and no status  *)
(* note names one.                                                         *)
(***************************************************************************)
C16_InvalidStatusRejected ==
  /\ \A t \in tasks : t.op = "status" => t.status \in Statuses
  /\ \A c \in Crits : criteria[c] \in Statuses
  /\ \A i \in DOMAIN notes : IsStatusNote(notes[i]) => notes[i].note[2] \in FiveLabels
  /\ \A r \in dbEvidence : IsStatusNote(r) => r.note[2] \in FiveLabels

\* a store call of handler t fails on this step
CallFails(t) ==
  \/ StatusRpcFailed(t)
  \/ StatusNoteReturned(t, FALSE)
  \/ UpdateOwnerReturned(t, FALSE)
  \/ UpdateDueDateReturned(t, FALSE)

(***************************************************************************)
(* C17: every failure of a store call of a status, owner, due-date or      *)
(* audit-note operation is surfaced to the caller: after the step on which *)
(* the call fails the page shows an error (`err` is set or an alert was    *)
(* raised).                                                                *)
(***************************************************************************)
C17_ErrorsSurfaced ==
  [][\A t \in tasks :
       CallFails(t) => (err' # NoText \/ Len(alerts') > Len(alerts))]_vars

(***************************************************************************)
(* C18: whenever a tracked field of a criterion (status, owner, due date)  *)
(* is changed in the store, the handler that changed it goes on to append  *)
(* one note-kind audit entry for that criterion: on the step of the        *)
(* successful write it continues at its audit-note insert.                 *)
(***************************************************************************)
C18_AuditNoteOnChange ==
  [][\A c \in Crits :
       (dbFields'[c] # dbFields[c] \/ dbStatus'[c] # dbStatus[c]) =>
         \E u \in tasks' \ tasks : u.crit = c /\ u.stage = "note"]_vars

\* deleteEvidence is invoked on this step, as call u, for a stored file
DeleteFileInvoked(u) ==
  /\ u \in tasks' /\ u.op = "deleteEvidence"
  /\ \A t \in tasks : t.n # u.n
  /\ u.row.kind = "file" /\ u.row.file_path # NoText

\* storage.remove of call t returns on this step
BlobRemovalReturns(t) ==
  /\ t \in tasks \ tasks' /\ t.op = "deleteEvidence" /\ t.stage = "remove"

\* the delete of the row of call t returns on this step
RowDeleteReturns(t) ==
  /\ t \in tasks \ tasks' /\ t.op = "deleteEvidence" /\ t.stage = "delete"

(***************************************************************************)
(* C19: deleteEvidence of a file row with a stored object first attempts   *)
(* the removal of the object, before any delete of the row; whatever the   *)
(* removal returns, error or exception, the call goes on to the delete of  *)
(* the row, and a delete that succeeds takes the row out of the store and  *)
(* out of the local list.                                                  *)
(***************************************************************************)
C19_RemovalBestEffort ==
  [][/\ \A u \in tasks' : DeleteFileInvoked(u) =>
          /\ u.stage = "remove"
          /\ UNCHANGED <<dbEvidence, notes, blobs>>
     /\ \A t \in tasks : BlobRemovalReturns(t) =>
          /\ [t EXCEPT !.stage = "delete"] \in tasks'
          /\ blobs' \in {blobs, blobs \ {t.row.file_path}}
          /\ UNCHANGED <<dbEvidence, notes, err, alerts>>
     /\ \A t \in tasks : RowDeleteReturns(t) =>
          \/ /\ dbEvidence' = DbDelete(dbEvidence, t.row.id)
             /\ notes' = WithoutId(notes, t.row.id)
             /\ UNCHANGED err
          \/ /\ err' = <<"error">>
             /\ UNCHANGED <<dbEvidence, notes>>]_vars

\* a file was uploaded by uploadFile and deleted by deleteEvidence: the
\* removal of its object failed, the object is still stored, and the row is
\* gone from the store and from the local list
C19_Witness ==
  /\ opCount = 2 /\ tasks = {}
  /\ toasts = <<>> /\ err = NoText /\ alerts = <<>>
  /\ nextId > 1
  /\ blobs # {}
  /\ \A r \in dbEvidence : r.kind # "file"
  /\ \A i \in DOMAIN notes : notes[i].kind # "file"

\* storage.upload of call t fails on this step: the call leaves its upload
\* and the object is not stored
UploadFails(t) ==
  /\ t \in tasks \ tasks' /\ t.stage = "upload"
  /\ t.op \in {"uploadFile", "submit"}
  /\ t.text2 \notin blobs'

(***************************************************************************)
(* C20: when the upload of a file to the object store fails, the           *)
(* evidence-add is aborted: the call ends on that step without an insert   *)
(* of a file row or of a cover note, the store and the local lists are as  *)
(* before, and the error is reported (an alert of uploadFile, a toast of   *)
(* the composer).                                                          *)
(***************************************************************************)
C20_UploadFailureAborts ==
  [][\A t \in tasks : UploadFails(t) =>
       /\ \A u \in tasks' : u.n # t.n
       /\ UNCHANGED <<dbEvidence, nextId, notes, rows, blobs>>
       /\ IF t.op = "uploadFile"
            THEN alerts' = Append(alerts, <<"Upload failed: ", "error">>)
            ELSE toasts' = Append(toasts, <<"error", "error">>)]_vars

\* the only call was an uploadFile whose upload failed: the alert is up,
\* nothing is stored and nothing is listed
C20_Witness ==
  /\ opCount = 1 /\ tasks = {}
  /\ alerts = <<<<"Upload failed: ", "error">>>>
  /\ dbEvidence = {} /\ blobs = {} /\ notes = <<>> /\ nextId = 1
  /\ err = NoText

\* this client inserts rows into criteria on this step
ClientInserts ==
  /\ otherCount' = otherCount
  /\ \E k \in DOMAIN dbCriteria : dbCriteria'[k] > dbCriteria[k]

\* Confirm & Add is pressed on this step
ConfirmStep == insTask.stage = "idle" /\ insTask'.stage = "insert"

(***************************************************************************)
(* C21: the allocator inserts criteria only through the confirmation step. *)
(* The batch under review is produced by openAddDrawer (buildDraftRows)    *)
(* and afterwards only shrinks; Confirm is pressed with the review open    *)
(* and a non-empty batch; the rows this client inserts are exactly the     *)
(* batch that was confirmed, all on one step; an empty batch is never sent.*)
(***************************************************************************)
C21_InsertOnlyConfirmed ==
  [][/\ draftRows' # draftRows =>
          \/ ~addDrawerOpen /\ addDrawerOpen' /\ draftRows' = buildDraftRows
          \/ addDrawerOpen /\ draftRows' \subseteq draftRows
          \/ insTask.stage = "refresh" /\ draftRows' = {}
     /\ ConfirmStep =>
          /\ addDrawerOpen /\ draftRows # {}
          /\ insTask'.ids = draftRows /\ insTask'.project_id = projectId
          /\ inserting' /\ dbCriteria' = dbCriteria
     /\ (insTask.stage = "insert" /\ insTask'.stage = "insert") =>
          insTask' = insTask
     /\ ClientInserts =>
          /\ insTask.stage = "insert" /\ inserting /\ insTask.ids # {}
          /\ dbCriteria' = DbInsert(insTask.ids)
          /\ insTask'.stage = "refresh"]_vars

\* one confirmed batch, the single row (p1, t1), was inserted and refreshed
C21_Witness ==
  /\ Len(commitLog) = 1
  /\ commitLog[1] = [kind |-> "add", project_id |-> "p1", ids |-> {"t1"}, fetched |-> TRUE]
  /\ dbCriteria[<<"p1", "t1">>] = 1
  /\ otherCount = 0
  /\ insTask = NoTask /\ ~inserting

(***************************************************************************)
(* C22: for every catalogue and every set `existing` the page holds, the   *)
(* addable templates and the templates already present are disjoint and    *)
(* together make up the catalogue; a criterion with a null template_id     *)
(* contributes nothing to `existing`.                                      *)
(***************************************************************************)
C22_DiffPartition ==
  /\ \A catalogue \in SUBSET Templates :
       /\ Addable(catalogue) \cap AlreadyAdded(catalogue) = {}
       /\ Addable(catalogue) \cup AlreadyAdded(catalogue) = catalogue
  /\ NULL \notin existing
  /\ existing \subseteq Templates

\* project p1 holds a criterion without template and one of template t2; its
\* refresh has returned: t2 is already present, t1 is addable
C22_Witness ==
  /\ projectId = "p1" /\ fetching = {}
  /\ dbCriteria[<<"p1", NULL>>] = 1
  /\ existing = {"t2"}
  /\ Addable(Templates) = {"t1"} /\ AlreadyAdded(Templates) = {"t2"}

(***************************************************************************)
(* C23: handleUpdateStatus never modifies caveat_reason: on every step of  *)
(* a status change (optimistic update, successful rpc, rollback, audit     *)
(* note) the caveat_reason stored for each criterion and the one held in   *)
(* the local list stay as they were, also when the status leaves caveat.   *)
(***************************************************************************)
C23_CaveatReasonKept ==
  [][\A c \in Crits :
       /\ dbFields'[c].caveat_reason = dbFields[c].caveat_reason
       /\ criteriaFields'[c].caveat_reason = criteriaFields[c].caveat_reason]_vars

\* c2 was in status caveat with a reason; its change to done has persisted
\* and the reason is still stored and still held locally
C23_Witness ==
  /\ opCount = 1
  /\ \E t \in tasks :
       /\ t.op = "status" /\ t.stage = "note" /\ t.crit = "c2"
       /\ t.snap["c2"] = "caveat" /\ t.status = "done"
  /\ dbStatus["c2"] = "done" /\ criteria["c2"] = "done"
  /\ dbFields["c2"].caveat_reason = "risk accepted"
  /\ criteriaFields["c2"].caveat_reason = "risk accepted"

\* nothing of criterion c is in flight and its status shown is the stored one
Settled(c) ==
  /\ \A u \in tasks : u.crit # c
  /\ criteria[c] = dbStatus[c]

\* a status change of c that was started after call t has persisted and
\* returned: its entry, which carries the number of the call, is in `notes`
CompletedAfter(t, c) ==
  \E i \in DOMAIN notes :
    /\ IsStatusNote(notes[i]) /\ notes[i].criterion_id = c
    /\ notes[i].id[1] = "rnd" /\ notes[i].id[2] > t.n

(***************************************************************************)
(* C24: the rollback after a failed status change of criterion A restores  *)
(* only A: a different criterion B whose own change has completed and      *)
(* persisted before A's failure is handled still shows its persisted       *)
(* status after A's rollback.                                              *)
(***************************************************************************)
C24_RollbackOnlyOwn ==
  [][\A t \in tasks : RpcFailStep(t) =>
       \A c \in Crits \ {t.crit} :
         (Settled(c) /\ CompletedAfter(t, c)) => criteria'[c] = dbStatus'[c]]_vars

(***************************************************************************)
(* Overlapping status changes of one criterion, by one client              *)
(***************************************************************************)
\* the criterion whose card the user keeps changing
Same == "c1"

InitSame == InitApp

NextSame ==
  \/ (\E status \in StatusOptions : StatusStart(Same, status)) /\ UNCHANGED allocVars
  \/ (\E t \in tasks : StatusRpcFailed(t)) /\ UNCHANGED allocVars
  \/ (\E t \in tasks : StatusRpcOk(t)) /\ UNCHANGED allocVars
  \/ (\E t \in tasks, stored \in BOOLEAN : StatusNoteReturned(t, stored)) /\ UNCHANGED allocVars

SpecSame == InitSame /\ [][NextSame]_vars

(***************************************************************************)
(* C25: with one client and no other writer, whatever the order in which   *)
(* overlapping status changes of the same criterion complete and whether   *)
(* they succeed or fail, once none is in flight the status shown for the   *)
(* criterion is the status stored for it.                                  *)
(***************************************************************************)
C25_ShownIsStored ==
  tasks = {} => criteria[Same] = dbStatus[Same]

\* the refreshExisting the effect started for project p returns on this step
\* with the rows of p, and no other fetch or commit awaits the store after it
LastFetchReturns(p) ==
  /\ p \in fetching /\ fetching' = {}
  /\ insTask.stage = "idle" /\ remTask.stage = "idle"
  /\ existing' = IdsOf(SelectTemplateIds(p))

(***************************************************************************)
(* C26: when the last refreshExisting in flight returns its rows, the      *)
(* local set `existing` is the set of non-null template_ids of the project *)
(* that is selected, in whatever order the responses of the fetches        *)
(* started for different projects arrive.                                  *)
(***************************************************************************)
C26_ExistingOfSelected ==
  [][\A p \in Projects :
       LastFetchReturns(p) => existing' = IdsOf(SelectTemplateIds(projectId'))]_vars

\* this client deletes rows of criteria on this step
ClientDeletes ==
  /\ remTask.stage = "delete"
  /\ \E k \in DOMAIN dbCriteria : dbCriteria'[k] < dbCriteria[k]

(***************************************************************************)
(* C27: confirmRemove deletes only criteria whose (project, template) pair *)
(* the user ticked for removal while that project was selected, and        *)
(* confirmInsert adds only pairs ticked for adding while that project was  *)
(* selected: a tick made under one project never changes another project.  *)
(***************************************************************************)
C27_OnlyMarkedPairs ==
  [][/\ (remTask.stage = "idle" /\ remTask'.stage = "delete") =>
          \A id \in remTask'.ids : <<"remove", remTask'.project_id, id>> \in marks
     /\ ClientDeletes =>
          \A k \in DOMAIN dbCriteria :
            dbCriteria'[k] < dbCriteria[k] =>
              k[1] = remTask.project_id /\ k[2] \in remTask.ids
     /\ ConfirmStep =>
          \A r \in insTask'.ids : <<"add", r.project_id, r.template_id>> \in marks
     /\ ClientInserts =>
          \A k \in DOMAIN dbCriteria :
            dbCriteria'[k] > dbCriteria[k] =>
              \E r \in insTask.ids : k = <<r.project_id, r.template_id>>]_vars

(***************************************************************************)
(* C28: every audit note in the local list `notes` is a note row that was  *)
(* persisted: handleUpdateStatus puts its 'Status changed to: ...' entry   *)
(* in front of `notes` only on a step on which the insert of that note     *)
(* stored a row for the same criterion with the same text.                 *)
(***************************************************************************)
C28_LocalNotePersisted ==
  [][Len(notes') > Len(notes) =>
       \E r \in dbEvidence' \ dbEvidence :
         /\ r.kind = "note"
         /\ r.criterion_id = Head(notes').criterion_id
         /\ r.note = Head(notes').note]_vars

(***************************************************************************)
(* C29: every file-kind evidence row in the store references a stored      *)
(* object that still exists, after any sequence of add and delete          *)
(* operations has run to its end, whatever their store calls returned.     *)
(***************************************************************************)
C29_FileRowsHaveBlobs ==
  tasks = {} =>
    \A r \in dbEvidence :
      (r.kind = "file" /\ r.file_path # NoText) => r.file_path \in blobs

(***************************************************************************)
(* C30 as stated: the flag `inserting` (`removing`) is true only while the *)
(* batched insert (delete) is outstanding.                                 *)
(***************************************************************************)
C30_FlagOnlyDuringBatchCall ==
  /\ inserting => insTask.stage = "insert"
  /\ removing => remTask.stage = "delete"

(***************************************************************************)
(* C30, amended: every confirmInsert and confirmRemove finishes and clears *)
(* its in-flight flag: `inserting` (`removing`) is true exactly while the  *)
(* call awaits the store, for its batched call or for the refreshExisting  *)
(* that follows a success, and once the store has answered, with success   *)
(* or with failure, it is false again, so Confirm is not blocked forever.  *)
(***************************************************************************)
C30_FlagsCleared ==
  /\ [](inserting <=> insTask.stage # "idle")
  /\ [](removing <=> remTask.stage # "idle")
  /\ inserting ~> ~inserting
  /\ removing ~> ~removing

\* a confirmRemove whose delete failed has ended: the alert is up, the flag
\* is down and the review is still open for another Confirm
C30_Witness ==
  /\ Len(alerts) = 1 /\ alerts[1] = <<"Failed to remove: ", "error">>
  /\ ~removing /\ remTask = NoTask
  /\ removeDrawerOpen /\ selectedToRemove # {}

====
